---- MODULE Spec2Model ----
(***************************************************************************)
(* CryptoPulse forecast generation and model-lifecycle engine.             *)
(*                                                                         *)
(* The model covers services/forecasting.py (generate_forecast,            *)
(* generate_hourly_forecast), services/model_loader.py (the Model Store    *)
(* and its lru_cache) and the two forecast handlers of routers/forecast.py.*)
(* A worker is one server process: it handles one request at a time (the   *)
(* handlers are async functions that call the synchronous engine), owns    *)
(* its own lru_cache and shares the persisted store with other workers.    *)
(* Time is counted in half-days.                                           *)
(*                                                                         *)
(* The pure functions of the engine (offset correction, target and feature *)
(* construction, cumulative returns, the correction of the recurrent-net   *)
(* path, the train/test split), the paging loop of the Fetcher and         *)
(* classify_sentiment of services/sentiment.py have specifications of      *)
(* their own further down; there cIn holds the arguments of the call and   *)
(* cOut its locals and result.  The last specification is the session      *)
(* handling of routers/auth.py and deps.py under concurrent requests;      *)
(* there cIn holds the database and cOut the requests in flight.           *)
(***************************************************************************)
EXTENDS Integers, Sequences, FiniteSets, TLC

VARIABLES store, meta, runs, now, ticks, reqs, pc, rq, cache,
          cIn, cOut

vars == <<store, meta, runs, now, ticks, reqs, pc, rq, cache, cIn, cOut>>

-----------------------------------------------------------------------------
(* Bounds of the model *)

MaxRequests == 2
MaxTicks == 1
MaxCompatAge == 17

(* Program constants *)

HalfDaysPerDay == 2
ShortHorizonMax == 2
MaxAgeDays == 7
DriftDen == 10
MinDailyRows == 100
MinHourlyRows == 500
MinHourlyCandles == 200
MinHorizonDays == 7
MaxHorizonDays == 30
WarmupShort == 167
WarmupDaily == 49
WarmupHourly == 23
HoursPerDay == 24
LstmOutputSteps == 48
DailyForecastSteps == 30
HourlyForecastSteps == 24

Workers == {1, 2}
Coins == {"BTCUSDT", "LTCUSDT"}
COIN_NAME_MAP == {"BTCUSDT"}
AVAILABLE_COINS == {"BTCUSDT"}
Horizons == {2, 3, 7}
DataLens == {100, 300, 1000}
CsvLens == {300}
TickSteps == {15, 17}
CompatLens == {89, 90, 100, 110, 111}
CompatShapes == {0, 100}

-----------------------------------------------------------------------------
(* Persisted files and in-memory objects.  A file holds the artifact of    *)
(* one training run (run 0 is the artifact trained offline), is absent, or *)
(* is unreadable (corrupt, or truncated by a writer that has not finished).*)

NoFile == [st |-> "absent", run |-> 0]
BadFile == [st |-> "corrupt", run |-> 0]
File(r) == [st |-> "ok", run |-> r]

None == [st |-> "none", run |-> 0]
Obj(r) == [st |-> "obj", run |-> r]

Files == {"lstm_best", "lstm_model", "lstm_sx", "lstm_sy",
          "gbr_model", "gbr_sx", "gbr_sy",
          "h24_model", "h24_sx", "h24_sy"}

(* pickle.load of one file inside try/except: the object or None *)
ReadObj(f) == IF store[f].st = "ok" THEN Obj(store[f].run) ELSE None

(* Metadata records.  tsKind: "dt" a datetime, "iso" an ISO string,        *)
(* "bad" a string that does not parse, "none" no timestamp key.            *)
(* shape 0 stands for a missing data_shape, cols says whether the record   *)
(* carries feature_cols, run names the training run it belongs to.         *)
NoMeta == [st |-> "absent", tsKind |-> "none", ts |-> 0, shape |-> 0, cols |-> FALSE, run |-> 0]
BadMeta == [st |-> "corrupt", tsKind |-> "none", ts |-> 0, shape |-> 0, cols |-> FALSE, run |-> 0]
Meta(k, t, s, c) == [st |-> "ok", tsKind |-> k, ts |-> t, shape |-> s, cols |-> c, run |-> 0]

Abs(x) == IF x < 0 THEN -x ELSE x
Min(a, b) == IF a < b THEN a ELSE b
Max(a, b) == IF a < b THEN b ELSE a

-----------------------------------------------------------------------------
(* Pure functions of the engine *)

(* a family choice with the boundary off by one *)
FamilyForOffByOne(h) == IF h < ShortHorizonMax THEN "lstm" ELSE "gbr"

(* generate_forecast: the branch on horizon_days that picks the family *)
FamilyFor(h) == IF h <= ShortHorizonMax THEN "lstm" ELSE "gbr"

(* (datetime.now() - timestamp).days: whole days, rounded down *)
DaysOld(t, ts) == (t - ts) \div HalfDaysPerDay

(* abs(current - shape) / float(shape) > 0.1 *)
DriftTooLarge(len, shape) == DriftDen * Abs(len - shape) > shape

(* meta_compatible(meta, current_data_len), evaluated at time t *)
meta_compatible(m, len, t) ==
    IF m.st # "ok" THEN FALSE
    ELSE IF m.tsKind = "bad" THEN FALSE
    ELSE IF m.tsKind \in {"dt", "iso"} /\ DaysOld(t, m.ts) > MaxAgeDays THEN FALSE
    ELSE IF m.shape # 0 /\ DriftTooLarge(len, m.shape) THEN FALSE
    ELSE TRUE

(* a row count that forgets the rows lost to the rolling windows *)
RowsBeforeDropna(n, warmup) == n

(* rows left by dropna() after the rolling windows *)
RowsAfter(n, warmup) == IF n > warmup THEN n - warmup ELSE 0

(* a reuse test that forgets force_retrain *)
DailyReusableIgnoringForce(force, model, sy, compatible) ==
    model.st = "obj" /\ sy.st = "obj" /\ compatible

(* the reuse test of the daily path and of the hourly path *)
DailyReusable(force, model, sy, compatible) ==
    ~force /\ model.st = "obj" /\ sy.st = "obj" /\ compatible

HourlyReusable(force, model, sx, sy) ==
    ~force /\ model.st = "obj" /\ sx.st = "obj" /\ sy.st = "obj"

(* load_ml_model_info: the pickle record first, then the JSON record *)
load_ml_model_info(coin) ==
    IF coin \notin COIN_NAME_MAP THEN NoMeta
    ELSE IF meta.pkl.st = "ok" THEN meta.pkl
    ELSE IF meta.json.st = "ok" THEN meta.json
    ELSE NoMeta

(* load_model_and_scalers body (without the lru_cache): the best model if  *)
(* present, else the plain one; the scalers only when the model loaded.    *)
(* tf is FALSE when TensorFlow cannot be imported.                         *)
LstmModelFile == IF store["lstm_best"].st # "absent" THEN "lstm_best" ELSE "lstm_model"

(* a loader that hands out a new, untrained net when no file is stored *)
LstmTripleUntrained(tf) ==
    IF store[LstmModelFile].st = "absent" THEN <<Obj(0), None, None>>
    ELSE IF store[LstmModelFile].st # "ok" \/ ~tf
    THEN <<None, None, None>>
    ELSE <<ReadObj(LstmModelFile), ReadObj("lstm_sx"), ReadObj("lstm_sy")>>

LstmTriple(tf) ==
    IF store[LstmModelFile].st # "ok" \/ ~tf
    THEN <<None, None, None>>
    ELSE <<ReadObj(LstmModelFile), ReadObj("lstm_sx"), ReadObj("lstm_sy")>>

(* the handlers' translation of the engine's outcome to an HTTP status;    *)
(* 0 stands for a direct call of generate_forecast, which has no status    *)
HandlerStatus(ep, kind, exc) ==
    IF ep = "generate_forecast" THEN 0
    ELSE IF kind \in {"model", "naive"} THEN 200
    ELSE IF kind = "rejected" THEN 400
    ELSE IF ep = "hourly_forecast" /\ exc = "ValueError" THEN 400
    ELSE 500

-----------------------------------------------------------------------------
(* Per-request locals *)

IdleRq == [ep |-> "idle", coin |-> "BTCUSDT", h |-> 0, force |-> FALSE,
           n |-> 0, src |-> "none", csv |-> "unread",
           model |-> None, sx |-> None, sy |-> None, info |-> NoMeta,
           compat |-> FALSE, uc |-> FALSE, minfo |-> "none",
           run |-> 0, trained |-> FALSE, saved |-> FALSE, wopen |-> FALSE,
           cleared |-> FALSE, fams |-> {}, used |-> FALSE, fault |-> "none",
           kind |-> "none", exc |-> "none", status |-> 0,
           fc |-> [points |-> 0, first |-> 0, step |-> 0]]

(* The time index of forecast_df, in hours: the number of points, the      *)
(* distance of the first point from the last candle, and the spacing.      *)
Frame(points, first, step) == [points |-> points, first |-> first, step |-> step]

(* generate_forecast lines 360-362 (pd.date_range of n_out hourly points,  *)
(* n_out being the output width of the 48h artifact) and lines 519-527     *)
(* (n_days = min(horizon_days, 30) daily points);                          *)
(* generate_hourly_forecast lines 683-688                                  *)
ModelFrame(r) ==
    IF r.ep = "hourly_forecast" THEN Frame(HourlyForecastSteps, 1, 1)
    ELSE IF FamilyFor(r.h) = "lstm" THEN Frame(LstmOutputSteps, 1, 1)
    ELSE Frame(Min(r.h, DailyForecastSteps), HoursPerDay, HoursPerDay)

(* the except branches: generate_forecast lines 535-539 (horizon_days      *)
(* points, freq "D", whatever the horizon class), generate_hourly_forecast *)
(* lines 695-699                                                           *)
NaiveFrame(r) ==
    IF r.ep = "hourly_forecast" THEN Frame(HourlyForecastSteps, 1, 1)
    ELSE Frame(r.h, HoursPerDay, HoursPerDay)

(* an exception that leaves the engine: nothing is returned *)
Raise(r, e) ==
    [r EXCEPT !.kind = "raised", !.exc = e,
              !.status = HandlerStatus(r.ep, "raised", e)]

(* the handler's own HTTPException before the engine is called *)
Reject(r) ==
    [r EXCEPT !.kind = "rejected", !.exc = "HTTPException",
              !.status = HandlerStatus(r.ep, "rejected", "HTTPException")]

(* an except branch that lets the exception through *)
FallbackReraise(r, cause) == Raise([r EXCEPT !.fault = cause], "Exception")

(* the except branch of the engine: the naive forecast is built and the    *)
(* function returns with using_cached_model and model_info as they stand   *)
Fallback(r, cause) ==
    [r EXCEPT !.kind = "naive", !.fault = cause,
              !.status = HandlerStatus(r.ep, "naive", "none"),
              !.fc = NaiveFrame(r)]

(* the normal return with a model forecast *)
Return(r) ==
    [r EXCEPT !.kind = "model",
              !.status = HandlerStatus(r.ep, "model", "none"),
              !.fc = ModelFrame(r)]

(* model_info as returned: (model_info or {}) is empty iff nothing was set *)
InfoEmpty(r) == r.minfo \in {"none", "empty"}

Goto(w, l) == pc' = [pc EXCEPT ![w] = l]
SetRq(w, r) == rq' = [rq EXCEPT ![w] = r]

-----------------------------------------------------------------------------
(* The lru_cache of load_model_and_scalers, one per worker, keyed by the   *)
(* call arguments (coin_symbol, horizon_days).  <<>> is a miss.            *)

CacheKeys == {k \in Coins \X Horizons : FamilyFor(k[2]) = "lstm"}
Miss == <<>>
EmptyCache == [k \in CacheKeys |-> Miss]

(* clear_model_cache *)
clear_model_cache(c) == EmptyCache

-----------------------------------------------------------------------------
(* Entry points *)

(* generate_forecast, lines 247-250: the cache is cleared on force_retrain *)
EnterGenerateForecast(w, r) ==
    /\ cache' = [cache EXCEPT ![w] = IF r.force THEN clear_model_cache(@) ELSE @]
    /\ SetRq(w, [r EXCEPT !.cleared = r.force])
    /\ Goto(w, "acquire")

(* POST /forecast: validation, then generate_forecast *)
forecast(w, coin, h, force) ==
    /\ pc[w] = "idle"
    /\ reqs < MaxRequests
    /\ reqs' = reqs + 1
    /\ LET r == [IdleRq EXCEPT !.ep = "forecast", !.coin = coin, !.h = h, !.force = force]
       IN IF ~(MinHorizonDays <= h /\ h <= MaxHorizonDays) \/ coin \notin AVAILABLE_COINS
          THEN /\ SetRq(w, Reject(r))
               /\ Goto(w, "done")
               /\ UNCHANGED cache
          ELSE EnterGenerateForecast(w, r)
    /\ UNCHANGED <<store, meta, runs, now, ticks, cIn, cOut>>

(* a direct call of generate_forecast(coin, h, force_retrain=force) *)
generate_forecast(w, coin, h, force) ==
    /\ pc[w] = "idle"
    /\ reqs < MaxRequests
    /\ reqs' = reqs + 1
    /\ EnterGenerateForecast(w, [IdleRq EXCEPT !.ep = "generate_forecast",
                                  !.coin = coin, !.h = h, !.force = force])
    /\ UNCHANGED <<store, meta, runs, now, ticks, cIn, cOut>>

(* POST /forecast/hourly: validation, then generate_hourly_forecast *)
hourly_forecast(w, coin, force) ==
    /\ pc[w] = "idle"
    /\ reqs < MaxRequests
    /\ reqs' = reqs + 1
    /\ LET r == [IdleRq EXCEPT !.ep = "hourly_forecast", !.coin = coin, !.h = 0, !.force = force]
       IN IF coin \notin AVAILABLE_COINS
          THEN SetRq(w, Reject(r)) /\ Goto(w, "done")
          ELSE SetRq(w, r) /\ Goto(w, "h_acquire")
    /\ UNCHANGED <<store, meta, runs, now, ticks, cache, cIn, cOut>>

(* the response has been sent: the worker is free again *)
Respond(w) ==
    /\ pc[w] = "done"
    /\ SetRq(w, IdleRq)
    /\ Goto(w, "idle")
    /\ UNCHANGED <<store, meta, runs, now, ticks, reqs, cache, cIn, cOut>>

-----------------------------------------------------------------------------
(* ACQUIRE *)

(* _load_price_series: the live source, else the fallback CSV, else        *)
(* FileNotFoundError, which generate_forecast does not catch.              *)
(* src is the source that answered, n the number of candles; csv records  *)
(* what path.exists() said when the fallback dataset was looked for.       *)
LoadPriceSeries(w, src, n) ==
    /\ pc[w] = "acquire"
    /\ IF src = "none"
       THEN /\ SetRq(w, Raise([rq[w] EXCEPT !.csv = "missing"], "FileNotFoundError"))
            /\ Goto(w, "done")
       ELSE /\ SetRq(w, [rq[w] EXCEPT !.n = n, !.src = src,
                                      !.csv = IF src = "csv" THEN "exists" ELSE @])
            /\ Goto(w, IF FamilyFor(rq[w].h) = "lstm" THEN "lstm_load" ELSE "ml_load_model")
    /\ UNCHANGED <<store, meta, runs, now, ticks, reqs, cache, cIn, cOut>>

(* generate_hourly_forecast, lines 570-579: the live source only; None or  *)
(* fewer than 200 candles is a ValueError raised before the try block.     *)
(* n = 0 stands for the unavailable sentinel.  csv says whether the        *)
(* Hourly_Dataset file of the coin exists: the function never looks for it.*)
FetchHourly(w, n, csv) ==
    /\ pc[w] = "h_acquire"
    /\ IF n < MinHourlyCandles
       THEN /\ SetRq(w, Raise([rq[w] EXCEPT !.csv = IF n > 0 THEN @
                                                   ELSE IF csv THEN "exists" ELSE "missing"],
                              "ValueError"))
            /\ Goto(w, "done")
       ELSE /\ SetRq(w, [rq[w] EXCEPT !.n = n, !.src = "live", !.minfo = "empty"])
            /\ Goto(w, "h_load_model")
    /\ UNCHANGED <<store, meta, runs, now, ticks, reqs, cache, cIn, cOut>>

-----------------------------------------------------------------------------
(* Recurrent-net path of generate_forecast (horizon_days <= 2) *)

(* load_model_and_scalers through its lru_cache.  _paths_for raises        *)
(* ValueError for a coin outside COIN_NAME_MAP; the exception is not       *)
(* cached and is caught by the try block of generate_forecast.             *)
load_model_and_scalers(w, tf) ==
    /\ pc[w] = "lstm_load"
    /\ LET r == [rq[w] EXCEPT !.fams = @ \cup {"lstm"}]
           key == <<r.coin, r.h>>
       IN IF r.coin \notin COIN_NAME_MAP
          THEN /\ SetRq(w, Fallback(r, "unsupported_coin"))
               /\ Goto(w, "done")
               /\ UNCHANGED cache
          ELSE LET t == IF cache[w][key] # Miss THEN cache[w][key] ELSE LstmTriple(tf)
               IN /\ cache' = [cache EXCEPT ![w][key] = t]
                  /\ SetRq(w, [r EXCEPT !.model = t[1], !.sx = t[2], !.sy = t[3]])
                  /\ Goto(w, "lstm_infer")
    /\ UNCHANGED <<store, meta, runs, now, ticks, reqs, cIn, cOut>>

(* lines 268-364: features, inference and correction with the loaded       *)
(* model.  A missing scaler is replaced by a MinMaxScaler fit on the data; *)
(* a missing model fails at model.predict.  fits says whether the offline  *)
(* artifact accepts the feature matrix.                                    *)
LstmInfer(w, fits) ==
    /\ pc[w] = "lstm_infer"
    /\ LET r == rq[w]
       IN IF RowsAfter(r.n, WarmupShort) < 1
          THEN SetRq(w, Fallback(r, "series_too_short"))
          ELSE IF r.model.st # "obj"
          THEN SetRq(w, Fallback(r, "no_model"))
          ELSE IF ~fits
          THEN SetRq(w, Fallback(r, "shape_mismatch"))
          ELSE SetRq(w, Return([r EXCEPT !.used = TRUE]))
    /\ Goto(w, "done")
    /\ UNCHANGED <<store, meta, runs, now, ticks, reqs, cache, cIn, cOut>>

-----------------------------------------------------------------------------
(* Gradient-boosted daily path of generate_forecast (horizon_days > 2) *)

(* load_ml_model_and_scalers(coin, 30): the model file *)
MlLoadModel(w) ==
    /\ pc[w] = "ml_load_model"
    /\ LET r == [rq[w] EXCEPT !.fams = @ \cup {"gbr"}]
       IN IF r.coin \notin COIN_NAME_MAP \/ store["gbr_model"].st # "ok"
          THEN SetRq(w, r) /\ Goto(w, "ml_load_info")
          ELSE SetRq(w, [r EXCEPT !.model = ReadObj("gbr_model")]) /\ Goto(w, "ml_load_sx")
    /\ UNCHANGED <<store, meta, runs, now, ticks, reqs, cache, cIn, cOut>>

(* load_ml_model_and_scalers: the input scaler file *)
MlLoadScalerX(w) ==
    /\ pc[w] = "ml_load_sx"
    /\ SetRq(w, [rq[w] EXCEPT !.sx = ReadObj("gbr_sx")])
    /\ Goto(w, "ml_load_sy")
    /\ UNCHANGED <<store, meta, runs, now, ticks, reqs, cache, cIn, cOut>>

(* load_ml_model_and_scalers: the output scaler file *)
MlLoadScalerY(w) ==
    /\ pc[w] = "ml_load_sy"
    /\ SetRq(w, [rq[w] EXCEPT !.sy = ReadObj("gbr_sy")])
    /\ Goto(w, "ml_load_info")
    /\ UNCHANGED <<store, meta, runs, now, ticks, reqs, cache, cIn, cOut>>

(* lines 375-430: the metadata load, the compatibility check against       *)
(* len(df) and the decision to reuse or retrain                            *)
MlDecide(w) ==
    /\ pc[w] = "ml_load_info"
    /\ LET r == rq[w]
           info == load_ml_model_info(r.coin)
           compatible == meta_compatible(info, r.n, now)
       IN IF DailyReusable(r.force, r.model, r.sy, compatible)
          THEN /\ SetRq(w, [r EXCEPT !.info = info, !.compat = compatible,
                                     !.uc = TRUE, !.minfo = "loaded"])
               /\ Goto(w, "ml_infer")
          ELSE /\ SetRq(w, [r EXCEPT !.info = info, !.compat = compatible])
               /\ Goto(w, "ml_train")
    /\ UNCHANGED <<store, meta, runs, now, ticks, reqs, cache, cIn, cOut>>

(* lines 431-498: feature engineering, the row check, the fit and the info *)
(* dict.  The fitted model and scalers replace the loaded ones in memory.  *)
(* save_ml_model_and_scalers returns False at once for an unknown coin.    *)
MlTrain(w) ==
    /\ pc[w] = "ml_train"
    /\ LET r == rq[w]
           rows == RowsAfter(r.n, WarmupDaily)
           k == Cardinality(DOMAIN runs)
       IN IF rows < MinDailyRows
          THEN /\ SetRq(w, Fallback(r, "too_few_rows"))
               /\ Goto(w, "done")
               /\ UNCHANGED runs
          ELSE /\ runs' = runs @@ (k :> [at |-> now, rows |-> rows, n |-> r.n, fam |-> "gbr"])
               /\ IF r.coin \in COIN_NAME_MAP
                  THEN /\ SetRq(w, [r EXCEPT !.model = Obj(k), !.sx = Obj(k), !.sy = Obj(k),
                                             !.run = k, !.trained = TRUE])
                       /\ Goto(w, "ml_w_model")
                  ELSE /\ SetRq(w, [r EXCEPT !.model = Obj(k), !.sx = Obj(k), !.sy = Obj(k),
                                             !.run = k, !.trained = TRUE,
                                             !.minfo = "trained", !.uc = FALSE])
                       /\ Goto(w, "ml_infer")
    /\ UNCHANGED <<store, meta, now, ticks, reqs, cache, cIn, cOut>>

(* save_ml_model_and_scalers writes three files in turn; each is opened    *)
(* with mode "wb", which truncates it, and then filled by pickle.dump.     *)
WFile(l) ==
    CASE l = "ml_w_model" -> "gbr_model"
      [] l = "ml_w_sx" -> "gbr_sx"
      [] l = "ml_w_sy" -> "gbr_sy"
      [] l = "h_w_model" -> "h24_model"
      [] l = "h_w_sx" -> "h24_sx"
      [] l = "h_w_sy" -> "h24_sy"

WNext(l) ==
    CASE l = "ml_w_model" -> "ml_w_sx"
      [] l = "ml_w_sx" -> "ml_w_sy"
      [] l = "ml_w_sy" -> "ml_infer"
      [] l = "h_w_model" -> "h_w_sx"
      [] l = "h_w_sx" -> "h_w_sy"
      [] l = "h_w_sy" -> "h_infer"

(* open(path, "wb") of the file the save has reached *)
WriteOpen(w) ==
    /\ ~rq[w].wopen
    /\ store' = [store EXCEPT ![WFile(pc[w])] = BadFile]
    /\ SetRq(w, [rq[w] EXCEPT !.wopen = TRUE])
    /\ UNCHANGED <<pc, meta, runs, now, ticks, reqs, cache, cIn, cOut>>

(* pickle.dump and close.  When it fails the save returns False, leaving   *)
(* the file truncated and the remaining files as they were; the engine     *)
(* goes on with the objects it holds in memory.  info is the value that    *)
(* model_info takes once the save has returned.                            *)
WriteDump(w, ok, info, after) ==
    /\ rq[w].wopen
    /\ IF ok
       THEN /\ store' = [store EXCEPT ![WFile(pc[w])] = File(rq[w].run)]
            /\ IF WNext(pc[w]) = after
               THEN SetRq(w, [rq[w] EXCEPT !.wopen = FALSE, !.saved = TRUE,
                                           !.minfo = info, !.uc = FALSE])
               ELSE SetRq(w, [rq[w] EXCEPT !.wopen = FALSE])
            /\ Goto(w, WNext(pc[w]))
       ELSE /\ UNCHANGED store
            /\ SetRq(w, [rq[w] EXCEPT !.wopen = FALSE, !.minfo = info, !.uc = FALSE])
            /\ Goto(w, after)
    /\ UNCHANGED <<meta, runs, now, ticks, reqs, cache, cIn, cOut>>

MlSaveOpen(w) ==
    /\ pc[w] \in {"ml_w_model", "ml_w_sx", "ml_w_sy"}
    /\ WriteOpen(w)

MlSaveDump(w, ok) ==
    /\ pc[w] \in {"ml_w_model", "ml_w_sx", "ml_w_sy"}
    /\ WriteDump(w, ok, "trained", "ml_infer")

(* whether inference with the objects held succeeds: all three are there,  *)
(* a feature row exists, and an artifact or feature list that was not      *)
(* produced by this code (run 0, metadata feature_cols) fits the features  *)
InferOk(r, rows, fits) ==
    /\ r.model.st = "obj" /\ r.sx.st = "obj" /\ r.sy.st = "obj"
    /\ rows >= 1
    /\ (r.model.run = 0 \/ r.sx.run = 0 \/ r.sy.run = 0 \/ (r.uc /\ r.info.cols)) => fits

(* lines 505-530: prediction, offset and the forecast frame *)
MlInfer(w, fits) ==
    /\ pc[w] = "ml_infer"
    /\ LET r == rq[w]
       IN IF InferOk(r, RowsAfter(r.n, WarmupDaily), fits)
          THEN SetRq(w, Return([r EXCEPT !.used = ~r.trained]))
          ELSE SetRq(w, Fallback(r, "inference_failure"))
    /\ Goto(w, "done")
    /\ UNCHANGED <<store, meta, runs, now, ticks, reqs, cache, cIn, cOut>>

-----------------------------------------------------------------------------
(* generate_hourly_forecast: the dedicated 24-step path *)

(* load_hourly_ml_model_and_scalers: the model file *)
HLoadModel(w) ==
    /\ pc[w] = "h_load_model"
    /\ LET r == [rq[w] EXCEPT !.fams = @ \cup {"gbr"}]
       IN IF r.coin \notin COIN_NAME_MAP \/ store["h24_model"].st # "ok"
          THEN SetRq(w, r) /\ Goto(w, "h_decide")
          ELSE SetRq(w, [r EXCEPT !.model = ReadObj("h24_model")]) /\ Goto(w, "h_load_sx")
    /\ UNCHANGED <<store, meta, runs, now, ticks, reqs, cache, cIn, cOut>>

HLoadScalerX(w) ==
    /\ pc[w] = "h_load_sx"
    /\ SetRq(w, [rq[w] EXCEPT !.sx = ReadObj("h24_sx")])
    /\ Goto(w, "h_load_sy")
    /\ UNCHANGED <<store, meta, runs, now, ticks, reqs, cache, cIn, cOut>>

HLoadScalerY(w) ==
    /\ pc[w] = "h_load_sy"
    /\ SetRq(w, [rq[w] EXCEPT !.sy = ReadObj("h24_sy")])
    /\ Goto(w, "h_decide")
    /\ UNCHANGED <<store, meta, runs, now, ticks, reqs, cache, cIn, cOut>>

(* lines 610-613: reuse iff not forced and all three objects were loaded *)
HDecide(w) ==
    /\ pc[w] = "h_decide"
    /\ LET r == rq[w]
       IN IF HourlyReusable(r.force, r.model, r.sx, r.sy)
          THEN SetRq(w, [r EXCEPT !.uc = TRUE]) /\ Goto(w, "h_infer")
          ELSE UNCHANGED rq /\ Goto(w, "h_train")
    /\ UNCHANGED <<store, meta, runs, now, ticks, reqs, cache, cIn, cOut>>

(* lines 614-656: hourly features, the row check and the fit *)
HTrain(w) ==
    /\ pc[w] = "h_train"
    /\ LET r == rq[w]
           rows == RowsAfter(r.n, WarmupHourly)
           k == Cardinality(DOMAIN runs)
       IN IF rows < MinHourlyRows
          THEN /\ SetRq(w, Fallback(r, "too_few_rows"))
               /\ Goto(w, "done")
               /\ UNCHANGED runs
          ELSE /\ runs' = runs @@ (k :> [at |-> now, rows |-> rows, n |-> r.n, fam |-> "gbr"])
               /\ SetRq(w, [r EXCEPT !.model = Obj(k), !.sx = Obj(k), !.sy = Obj(k),
                                      !.run = k, !.trained = TRUE])
               /\ Goto(w, "h_w_model")
    /\ UNCHANGED <<store, meta, now, ticks, reqs, cache, cIn, cOut>>

HSaveOpen(w) ==
    /\ pc[w] \in {"h_w_model", "h_w_sx", "h_w_sy"}
    /\ WriteOpen(w)

HSaveDump(w, ok) ==
    /\ pc[w] \in {"h_w_model", "h_w_sx", "h_w_sy"}
    /\ WriteDump(w, ok, "hourly_trained", "h_infer")

(* lines 668-690: prediction, offset and the forecast frame *)
HInfer(w, fits) ==
    /\ pc[w] = "h_infer"
    /\ LET r == rq[w]
       IN IF InferOk(r, RowsAfter(r.n, WarmupHourly), fits)
          THEN SetRq(w, Return([r EXCEPT !.used = ~r.trained]))
          ELSE SetRq(w, Fallback(r, "inference_failure"))
    /\ Goto(w, "done")
    /\ UNCHANGED <<store, meta, runs, now, ticks, reqs, cache, cIn, cOut>>

(* the clock: days pass between requests, not within one *)
Tick(d) ==
    /\ ticks < MaxTicks
    /\ \A w \in Workers : pc[w] = "idle"
    /\ ticks' = ticks + 1
    /\ now' = now + d
    /\ UNCHANGED <<store, meta, runs, reqs, pc, rq, cache, cIn, cOut>>

-----------------------------------------------------------------------------
(* Initial states: the store as deployed, holding at most the artifacts of *)
(* the offline training run (run 0, trained at time 0 on 1000 candles).    *)

LstmFiles(c) ==
    [f \in {"lstm_best", "lstm_model", "lstm_sx", "lstm_sy"} |->
        CASE c = "full" -> File(0)
          [] c = "bare" -> IF f = "lstm_model" THEN File(0) ELSE NoFile
          [] c = "corrupt" -> IF f = "lstm_model" THEN BadFile
                              ELSE IF f = "lstm_best" THEN NoFile ELSE File(0)
          [] OTHER -> NoFile]

TripleFiles(c, m, x, y) ==
    [f \in {m, x, y} |->
        CASE c = "full" -> File(0)
          [] c = "nosx" -> IF f = x THEN NoFile ELSE File(0)
          [] c = "corrupt" -> IF f = m THEN BadFile ELSE File(0)
          [] OTHER -> NoFile]

StoreOf(l, g, h) ==
    LstmFiles(l) @@ TripleFiles(g, "gbr_model", "gbr_sx", "gbr_sy")
                 @@ TripleFiles(h, "h24_model", "h24_sx", "h24_sy")

MetaOf(c) ==
    CASE c = "pkl" -> [pkl |-> Meta("dt", 0, 951, TRUE), json |-> NoMeta]
      [] c = "json" -> [pkl |-> NoMeta, json |-> Meta("iso", 0, 0, FALSE)]
      [] c = "badpkl" -> [pkl |-> BadMeta, json |-> Meta("iso", 0, 951, TRUE)]
      [] c = "badts" -> [pkl |-> NoMeta, json |-> Meta("bad", 0, 951, FALSE)]
      [] c = "nots" -> [pkl |-> Meta("none", 0, 0, FALSE), json |-> NoMeta]
      [] OTHER -> [pkl |-> NoMeta, json |-> NoMeta]

Deployments ==
    { <<"none", "none", "none", "none">>,
      <<"full", "full", "pkl", "full">>,
      <<"bare", "nosx", "pkl", "nosx">>,
      <<"corrupt", "corrupt", "badpkl", "corrupt">>,
      <<"full", "full", "json", "full">>,
      <<"none", "full", "none", "none">>,
      <<"full", "nosx", "nots", "full">>,
      <<"bare", "full", "badts", "none">> }

OfflineRun == [at |-> 0, rows |-> 951, n |-> 1000, fam |-> "offline"]

NoCompat == [kind |-> "none", age |-> 0, shape |-> 0, len |-> 0]

InitWith(d) ==
    /\ store = StoreOf(d[1], d[2], d[4])
    /\ meta = MetaOf(d[3])
    /\ runs = (0 :> OfflineRun)
    /\ now = 0
    /\ ticks = 0
    /\ reqs = 0
    /\ pc = [w \in Workers |-> "idle"]
    /\ rq = [w \in Workers |-> IdleRq]
    /\ cache = [w \in Workers |-> EmptyCache]
    /\ cIn = NoCompat
    /\ cOut = "unset"

Init == \E d \in Deployments : InitWith(d)

(* One worker and a disk that takes every write: requests are handled one  *)
(* after the other                                                         *)
Next ==
    \/ \E c \in Coins, h \in Horizons, f \in BOOLEAN : forecast(1, c, h, f)
    \/ \E c \in Coins, h \in Horizons, f \in BOOLEAN : generate_forecast(1, c, h, f)
    \/ \E c \in Coins, f \in BOOLEAN : hourly_forecast(1, c, f)
    \/ \E n \in DataLens : LoadPriceSeries(1, "live", n)
    \/ \E n \in CsvLens : LoadPriceSeries(1, "csv", n)
    \/ LoadPriceSeries(1, "none", 0)
    \/ \E n \in DataLens \cup {0}, csv \in BOOLEAN : FetchHourly(1, n, csv)
    \/ \E tf \in BOOLEAN : load_model_and_scalers(1, tf)
    \/ \E fits \in BOOLEAN : LstmInfer(1, fits)
    \/ MlLoadModel(1)
    \/ MlLoadScalerX(1)
    \/ MlLoadScalerY(1)
    \/ MlDecide(1)
    \/ MlTrain(1)
    \/ MlSaveOpen(1)
    \/ MlSaveDump(1, TRUE)
    \/ \E fits \in BOOLEAN : MlInfer(1, fits)
    \/ HLoadModel(1)
    \/ HLoadScalerX(1)
    \/ HLoadScalerY(1)
    \/ HDecide(1)
    \/ HTrain(1)
    \/ HSaveOpen(1)
    \/ HSaveDump(1, TRUE)
    \/ \E fits \in BOOLEAN : HInfer(1, fits)
    \/ Respond(1)
    \/ \E d \in TickSteps : Tick(d)

Spec == Init /\ [][Next]_vars

(* Several workers on the daily gradient-boosted key of one coin, and      *)
(* writes that may fail                                                    *)
InitConc == \E d \in {<<"none", "none", "none", "none">>, <<"full", "full", "pkl", "full">>} : InitWith(d)

NextConc ==
    \E w \in Workers :
        \/ \E f \in BOOLEAN : generate_forecast(w, "BTCUSDT", 7, f)
        \/ LoadPriceSeries(w, "live", 1000)
        \/ MlLoadModel(w)
        \/ MlLoadScalerX(w)
        \/ MlLoadScalerY(w)
        \/ MlDecide(w)
        \/ MlTrain(w)
        \/ MlSaveOpen(w)
        \/ \E ok \in BOOLEAN : MlSaveDump(w, ok)
        \/ \E fits \in BOOLEAN : MlInfer(w, fits)
        \/ Respond(w)

SpecConc == InitConc /\ [][NextConc]_vars

(* The compatibility check as a pure function of its four inputs *)
CompatInputs ==
    [kind : {"dt", "iso", "bad", "none"}, age : 0..MaxCompatAge,
     shape : CompatShapes, len : CompatLens]

InitCompat ==
    /\ store = StoreOf("none", "none", "none")
    /\ meta = MetaOf("none")
    /\ runs = (0 :> OfflineRun)
    /\ now = MaxCompatAge
    /\ ticks = 0
    /\ reqs = 0
    /\ pc = [w \in Workers |-> "idle"]
    /\ rq = [w \in Workers |-> IdleRq]
    /\ cache = [w \in Workers |-> EmptyCache]
    /\ cIn \in CompatInputs
    /\ cOut = "unset"

CheckCompat ==
    /\ cOut = "unset"
    /\ cIn.kind # "none" \/ cIn.age = 0
    /\ cOut' = IF meta_compatible(Meta(cIn.kind, now - cIn.age, cIn.shape, FALSE), cIn.len, now)
               THEN "true" ELSE "false"
    /\ UNCHANGED <<store, meta, runs, now, ticks, reqs, pc, rq, cache, cIn>>

NextCompat == CheckCompat

SpecCompat == InitCompat /\ [][NextCompat]_vars

TypeOK ==
    /\ \A w \in Workers : rq[w].kind \in {"none", "model", "naive", "raised", "rejected"}
    /\ now >= 0

-----------------------------------------------------------------------------
(* Properties *)

DailyEps == {"forecast", "generate_forecast"}
Done(w) == pc[w] = "done"
MaxAge == MaxAgeDays * HalfDaysPerDay

(* C1: once candles have been acquired, a request ends with a forecast     *)
(* result, never with an exception: every failure of loading, training or  *)
(* inference ends in the naive forecast, and a model forecast is returned  *)
(* only when a model was there.                                            *)
C1_FailuresFallBack ==
    \A w \in Workers :
        (Done(w) /\ rq[w].n > 0) =>
            /\ rq[w].kind \in {"model", "naive"}
            /\ rq[w].fault # "none" => rq[w].kind = "naive"
            /\ rq[w].kind = "model" => rq[w].model.st = "obj"

C1_Witness ==
    \E w \in Workers :
        /\ Done(w) /\ rq[w].n > 0
        /\ rq[w].fault = "inference_failure" /\ rq[w].kind = "naive"

(* C2: a naive forecast is returned with using_cached_model false and an   *)
(* empty model_info.                                                       *)
C2_NaiveHasNoProvenance ==
    \A w \in Workers :
        (Done(w) /\ rq[w].kind = "naive") => (~rq[w].uc /\ InfoEmpty(rq[w]))

(* C3: in generate_forecast the families touched depend on the horizon     *)
(* alone: only the recurrent net for horizon <= 2, only the gradient-      *)
(* boosted ensemble for horizon > 2.                                       *)
C3_FamilyByHorizon ==
    \A w \in Workers :
        rq[w].ep \in DailyEps =>
            /\ rq[w].h <= 2 => rq[w].fams \subseteq {"lstm"}
            /\ rq[w].h > 2 => rq[w].fams \subseteq {"gbr"}
            /\ (Done(w) /\ rq[w].kind = "model") => rq[w].fams # {}

C3_Witness ==
    \E w \in Workers :
        /\ Done(w) /\ rq[w].ep = "generate_forecast" /\ rq[w].h = 2
        /\ rq[w].force /\ rq[w].kind = "model" /\ rq[w].fams = {"lstm"}

(* C4: a daily request without force_retrain that loads an artifact saved  *)
(* by an earlier request at most 7 days ago, on a dataset within 10% of    *)
(* the present one, does not retrain.                                      *)
C4_ReuseAfterRetrain ==
    \A w \in Workers :
        ~ ( /\ pc[w] = "ml_train" /\ ~rq[w].force
            /\ rq[w].model.st = "obj" /\ rq[w].model.run >= 1
            /\ rq[w].sx = rq[w].model /\ rq[w].sy = rq[w].model
            /\ now - runs[rq[w].model.run].at <= MaxAge
            /\ ~DriftTooLarge(rq[w].n, runs[rq[w].model.run].n)
            /\ ~DriftTooLarge(rq[w].n, runs[rq[w].model.run].rows) )

(* C5: the compatibility check answers true only for metadata that carries *)
(* a timestamp at most 7 days old and a data_shape within 10% of the       *)
(* current length.                                                         *)
C5_CompatibleOnlyIfFreshAndClose ==
    cOut = "true" =>
        /\ cIn.kind \in {"dt", "iso"}
        /\ cIn.age <= MaxAge
        /\ cIn.shape # 0
        /\ 10 * Abs(cIn.len - cIn.shape) <= cIn.shape

(* C6: after a successful retrain and save on the daily path the metadata  *)
(* load returns the record of that training run.                           *)
C6_MetadataPersisted ==
    \A w \in Workers :
        (rq[w].ep \in DailyEps /\ rq[w].saved) =>
            LET m == load_ml_model_info(rq[w].coin)
            IN m.st = "ok" /\ m.run = rq[w].run /\ m.ts = runs[rq[w].run].at

(* C7: the hourly path reuses a stored artifact only if it was trained at  *)
(* most 7 days ago on a dataset within 10% of the present one.             *)
C7_HourlyReuseOnlyCompatible ==
    \A w \in Workers :
        (rq[w].ep = "hourly_forecast" /\ rq[w].uc) =>
            /\ DaysOld(now, runs[rq[w].model.run].at) <= 7
            /\ 10 * Abs(rq[w].n - runs[rq[w].model.run].n) <= runs[rq[w].model.run].n

(* C8 as stated: a request with force_retrain never runs inference on a    *)
(* stored or cached artifact and returns using_cached_model false.         *)
C8_ForceNeverUsesStored ==
    \A w \in Workers :
        (Done(w) /\ rq[w].force) => (~rq[w].used /\ ~rq[w].uc)

(* C8 amended: a generate_forecast request with force_retrain starts with  *)
(* an empty loader cache and returns using_cached_model false; on the      *)
(* gradient-boosted paths (horizon > 2, and the hourly endpoint) it never  *)
(* runs inference on a stored artifact: a model forecast comes from a      *)
(* model trained within the request.                                       *)
C8_ForceRetrainsGbr ==
    \A w \in Workers :
        rq[w].force =>
            /\ ~rq[w].uc
            /\ (rq[w].ep \in DailyEps /\ pc[w] \in {"acquire", "lstm_load"})
                   => cache[w] = EmptyCache
            /\ (rq[w].ep = "hourly_forecast" \/ rq[w].h > 2) =>
                   /\ ~rq[w].used
                   /\ (Done(w) /\ rq[w].kind = "model") => rq[w].trained

C8_Witness ==
    \E w \in Workers :
        /\ Done(w) /\ rq[w].force /\ rq[w].h > 2 /\ rq[w].ep \in DailyEps
        /\ rq[w].info.st = "ok" /\ rq[w].compat
        /\ rq[w].kind = "model" /\ rq[w].trained

(* C9: a load that returns a model and both scalers returns the three      *)
(* files of one training run.                                              *)
C9_LoadSeesOneRun ==
    \A w \in Workers :
        (pc[w] = "ml_load_info" /\ rq[w].model.st = "obj"
           /\ rq[w].sx.st = "obj" /\ rq[w].sy.st = "obj") =>
            (rq[w].sx.run = rq[w].model.run /\ rq[w].sy.run = rq[w].model.run)

(* C10: when no source yields candles, the handler answers with a client   *)
(* error and no exception leaves it unhandled.                             *)
C10_NoDataIsClientError ==
    \A w \in Workers :
        (Done(w) /\ rq[w].kind = "raised" /\ rq[w].ep \in {"forecast", "hourly_forecast"}) =>
            rq[w].status = 400

(* C11: when the live source gives nothing and the fallback dataset of the *)
(* symbol exists, the request proceeds with the candles of the fallback    *)
(* dataset, on the daily, short-horizon and 24-step hourly paths; it fails *)
(* for lack of data only if both sources are unavailable.                  *)
C11_FallbackDatasetUsed ==
    \A w \in Workers :
        /\ rq[w].csv = "exists" =>
               (rq[w].src = "csv" /\ rq[w].n \in CsvLens /\ rq[w].kind # "raised")
        /\ rq[w].src = "csv" => rq[w].csv = "exists"

-----------------------------------------------------------------------------
(* Pure functions of the engine, each checked under a specification of its *)
(* own: cIn holds the arguments of the call, cOut its locals and result.   *)
(* The engine itself stands still.                                         *)

EngineIdle ==
    /\ store = StoreOf("none", "none", "none")
    /\ meta = MetaOf("none")
    /\ runs = (0 :> OfflineRun)
    /\ now = 0
    /\ ticks = 0
    /\ reqs = 0
    /\ pc = [w \in Workers |-> "idle"]
    /\ rq = [w \in Workers |-> IdleRq]
    /\ cache = [w \in Workers |-> EmptyCache]

EngineUnchanged == UNCHANGED <<store, meta, runs, now, ticks, reqs, pc, rq, cache>>

-----------------------------------------------------------------------------
(* Binary floating point.  Prices and predictions are numpy float64; the   *)
(* model keeps the format (a significand of MantissaBits bits, round to    *)
(* nearest, ties to even) with a short significand.  Values are counted in *)
(* units of the smallest spacing, so every float is an integer m * 2^e     *)
(* with |m| < 2^MantissaBits.                                              *)

MantissaBits == 3
MaxPrice == 40
MaxSteps == 3

RECURSIVE Pow2(_)
Pow2(e) == IF e = 0 THEN 1 ELSE 2 * Pow2(e - 1)

(* the spacing of the floats around x *)
RECURSIVE UlpFrom(_, _)
UlpFrom(x, u) == IF Abs(x) < Pow2(MantissaBits) * u THEN u ELSE UlpFrom(x, 2 * u)
Ulp(x) == UlpFrom(x, 1)

(* the float nearest to the real x *)
Fl(x) ==
    LET u == Ulp(x)
        q == Abs(x) \div u
        r == Abs(x) % u
        m == IF 2 * r < u THEN q
             ELSE IF 2 * r > u THEN q + 1
             ELSE q + (q % 2)
    IN IF x < 0 THEN -(m * u) ELSE m * u

Floats == {Fl(x) : x \in 1..MaxPrice}

-----------------------------------------------------------------------------
(* Offset correction of the gradient-boosted paths: generate_forecast      *)
(* lines 512-516, generate_hourly_forecast lines 676-680.                  *)

(* an offset taken from the last predicted step *)
OffsetFromLast(current_price, all_predictions) ==
    Fl(current_price - all_predictions[Len(all_predictions)])

(* offset = current_price - first_prediction *)
Offset(current_price, all_predictions) ==
    Fl(current_price - all_predictions[1])

(* all_predictions = all_predictions + offset *)
ApplyOffset(current_price, all_predictions) ==
    [i \in 1..Len(all_predictions) |->
        Fl(all_predictions[i] + Offset(current_price, all_predictions))]

RawPredictions == {Fl(1), Fl(5), Fl(12), Fl(MaxPrice)}

OffsetInputs ==
    [current_price : Floats, all_predictions : [1..MaxSteps -> RawPredictions]]

InitOffset ==
    /\ EngineIdle
    /\ cIn \in OffsetInputs
    /\ cOut = <<>>

AlignWithCurrentPrice ==
    /\ cOut = <<>>
    /\ cOut' = ApplyOffset(cIn.current_price, cIn.all_predictions)
    /\ UNCHANGED cIn
    /\ EngineUnchanged

NextOffset == AlignWithCurrentPrice

SpecOffset == InitOffset /\ [][NextOffset]_vars

OffsetDone == cOut # <<>>

-----------------------------------------------------------------------------
(* C13: the forecast series of generate_forecast has as many points as the *)
(* requested horizon counts time units of its class (hours for horizon     *)
(* <= 2, days otherwise), starts one such unit after the last candle and   *)
(* has its points one unit apart, whether it comes from the recurrent net, *)
(* the gradient-boosted model or the naive fallback.                       *)
C13_SeriesMatchesHorizon ==
    \A w \in Workers :
        (Done(w) /\ rq[w].ep \in DailyEps /\ rq[w].kind \in {"model", "naive"}) =>
            LET unit == IF rq[w].h <= ShortHorizonMax THEN 1 ELSE HoursPerDay
                requested == IF rq[w].h <= ShortHorizonMax THEN rq[w].h * HoursPerDay
                             ELSE rq[w].h
            IN /\ rq[w].fc.points = requested
               /\ rq[w].fc.first = unit
               /\ rq[w].fc.step = unit

-----------------------------------------------------------------------------
(* Multi-step targets: generate_forecast lines 437-445 (FORECAST_STEPS =   *)
(* 30), generate_hourly_forecast lines 622-629 (FORECAST_STEPS = 24).      *)
(* df_features is the sequence of feature rows; a row keeps the position   *)
(* it had before dropna as idx.                                            *)

MaxRows == 5
MaxClose == 3

(* pandas' missing value, outside the range of prices *)
NaN == -1

(* Series.shift(k) for k > 0: values move towards the end *)
ShiftBack(col, k) == [i \in 1..Len(col) |-> IF i - k >= 1 THEN col[i - k] ELSE NaN]

(* Series.shift(-k): row i gets the value of row i + k, NaN past the end *)
Shift(col, k) == [i \in 1..Len(col) |-> IF i + k <= Len(col) THEN col[i + k] ELSE NaN]

(* df_features[f'Close_t+{k}'] = df_features['Close'].shift(-k), k = 1..steps *)
WithTargets(closes, steps) ==
    [i \in 1..Len(closes) |->
        [idx |-> i, Close |-> closes[i],
         targets |-> [k \in 1..steps |-> Shift(closes, k)[i]]]]

HasNaN(row) == row.Close = NaN \/ \E k \in DOMAIN row.targets : row.targets[k] = NaN

(* DataFrame.dropna().reset_index(drop=True) *)
DropNa(rows) == SelectSeq(rows, LAMBDA row : ~HasNaN(row))

RECURSIVE SeqsUpTo(_, _)
SeqsUpTo(S, n) ==
    IF n = 0 THEN {<<>>}
    ELSE LET shorter == SeqsUpTo(S, n - 1)
         IN shorter \cup {Append(q, x) : q \in {t \in shorter : Len(t) = n - 1}, x \in S}

TargetInputs == [closes : SeqsUpTo(1..MaxClose, MaxRows), steps : 1..MaxSteps]

InitTargets ==
    /\ EngineIdle
    /\ cIn \in TargetInputs
    /\ cOut = [done |-> FALSE, rows |-> <<>>]

BuildTargets ==
    /\ ~cOut.done
    /\ cOut' = [done |-> TRUE, rows |-> DropNa(WithTargets(cIn.closes, cIn.steps))]
    /\ UNCHANGED cIn
    /\ EngineUnchanged

NextTargets == BuildTargets

SpecTargets == InitTargets /\ [][NextTargets]_vars

(* C14: in every training row the k-th target is the close k rows further  *)
(* on in the feature-row sequence, for every k in 1..N, and every row with *)
(* some target past the end is dropped: exactly the last N rows are        *)
(* missing from the training data.                                         *)
C14_TargetsAligned ==
    cOut.done =>
        /\ Len(cOut.rows) = Max(Len(cIn.closes) - cIn.steps, 0)
        /\ \A i \in 1..Len(cOut.rows) :
               /\ cOut.rows[i].idx = i
               /\ cOut.rows[i].Close = cIn.closes[i]
               /\ \A k \in 1..cIn.steps :
                      /\ i + k <= Len(cIn.closes)
                      /\ cOut.rows[i].targets[k] = cIn.closes[i + k]

C14_Witness ==
    /\ cOut.done
    /\ Len(cOut.rows) >= 2
    /\ cIn.steps >= 2
    /\ cOut.rows[1].targets[1] # cOut.rows[1].targets[2]
    /\ cOut.rows[1].targets[1] # cOut.rows[1].Close

-----------------------------------------------------------------------------
(* _prepare_feature_matrix, lines 170-237.  What matters for the shape of  *)
(* the matrix is which cells are NaN: a column is the sequence of its      *)
(* cells' definedness (TRUE for a number, FALSE for NaN).  The candles     *)
(* carry positive prices and no missing value.                             *)

MaxCandles == 170

(* Series.rolling(w).mean() and .std(): NaN until the window holds w       *)
(* numbers; this one starts a row late                                     *)
RollingLate(col, w) ==
    [i \in 1..Len(col) |-> i > w /\ \A j \in (i - w + 1)..i : col[j]]

(* Series.rolling(w).mean() and .std(): defined from row w on, when all w  *)
(* cells of the window are                                                 *)
Rolling(col, w) ==
    [i \in 1..Len(col) |-> i >= w /\ \A j \in (i - w + 1)..i : col[j]]

(* Series.pct_change(): the first row has no predecessor *)
PctChange(col) ==
    [i \in 1..Len(col) |-> i >= 2 /\ col[i] /\ col[i - 1]]

(* a column of n cells read from the candles *)
RawColumn(n) == [i \in 1..n |-> TRUE]

(* an arithmetic combination of two columns, cell by cell *)
Both(a, b) == [i \in 1..Len(a) |-> a[i] /\ b[i]]

(* lines 180-187: the columns of the short-horizon schema *)
HourlyColumns(n) ==
    LET Close == RawColumn(n)
        Returns == PctChange(Close)
    IN [Open |-> RawColumn(n), High |-> RawColumn(n), Low |-> RawColumn(n),
        Close |-> Close, Volume |-> RawColumn(n),
        MA_12 |-> Rolling(Close, 12), MA_24 |-> Rolling(Close, 24),
        MA_168 |-> Rolling(Close, 168),
        Returns |-> Returns, Volatility |-> Rolling(Returns, 12),
        Price_Range |-> Both(RawColumn(n), RawColumn(n)),
        Price_Change |-> Both(Close, RawColumn(n))]

(* lines 205-215: the columns of the daily schema *)
DailyColumns(n) ==
    LET Close == RawColumn(n)
        Returns == PctChange(Close)
    IN [Open |-> RawColumn(n), High |-> RawColumn(n), Low |-> RawColumn(n),
        Close |-> Close, Volume |-> RawColumn(n),
        MA_7 |-> Rolling(Close, 7), MA_14 |-> Rolling(Close, 14),
        MA_30 |-> Rolling(Close, 30), MA_50 |-> Rolling(Close, 50),
        Returns |-> Returns, Volatility |-> Rolling(Returns, 7),
        Price_Range |-> Both(RawColumn(n), RawColumn(n)),
        Price_Change |-> Both(Close, RawColumn(n)),
        Volume_MA_7 |-> Rolling(RawColumn(n), 7),
        High_Low_Ratio |-> Both(RawColumn(n), RawColumn(n))]

(* df.dropna().reset_index(drop=True): the rows all of whose cells are     *)
(* defined, each with the position it had among the candles                *)
DropNaRows(cols, n) ==
    LET rows == [i \in 1..n |-> [idx |-> i, cells |-> [c \in DOMAIN cols |-> cols[c][i]]]]
    IN SelectSeq(rows, LAMBDA row : \A c \in DOMAIN row.cells : row.cells[c])

(* X = df[feature_cols].fillna(0).values; feature_cols are all the columns *)
(* of the schema                                                           *)
_prepare_feature_matrix(n, horizon_days) ==
    LET cols == IF horizon_days <= ShortHorizonMax THEN HourlyColumns(n) ELSE DailyColumns(n)
    IN DropNaRows(cols, n)

FeatureInputs == [n : 0..MaxCandles, horizon_days : Horizons]

InitFeatures ==
    /\ EngineIdle
    /\ cIn \in FeatureInputs
    /\ cOut = [done |-> FALSE, rows |-> <<>>]

BuildFeatures ==
    /\ ~cOut.done
    /\ cOut' = [done |-> TRUE, rows |-> _prepare_feature_matrix(cIn.n, cIn.horizon_days)]
    /\ UNCHANGED cIn
    /\ EngineUnchanged

NextFeatures == BuildFeatures

SpecFeatures == InitFeatures /\ [][NextFeatures]_vars

(* C15: no emitted feature row has an undefined field, and from n candles  *)
(* without missing inputs, n at least the longest window plus one, exactly *)
(* n - 167 rows come out in the short-horizon schema and n - 49 in the     *)
(* daily schema: the rows after the warm-up of the longest window.         *)
C15_FeatureRowsDefined ==
    cOut.done =>
        LET warmup == IF cIn.horizon_days <= ShortHorizonMax THEN WarmupShort ELSE WarmupDaily
        IN /\ \A i \in 1..Len(cOut.rows) :
                  /\ \A c \in DOMAIN cOut.rows[i].cells : cOut.rows[i].cells[c]
                  /\ cOut.rows[i].idx = i + warmup
           /\ cIn.n >= warmup + 2 => Len(cOut.rows) = cIn.n - warmup
           /\ Len(cOut.rows) = RowsAfter(cIn.n, warmup)

C15_Witness ==
    /\ cOut.done
    /\ cIn.horizon_days <= ShortHorizonMax
    /\ cIn.n = WarmupShort + 3
    /\ Len(cOut.rows) = 3

-----------------------------------------------------------------------------
(* Cumulative returns: generate_forecast lines 541-544 and the handlers    *)
(* (forecast.py lines 90 and 155):                                         *)
(*   forecast_df.assign(price = price.pct_change().fillna(0)               *)
(*                                   .add(1).cumprod().sub(1))             *)
(* Numbers are fractions <<numerator, denominator>> in lowest terms;       *)
(* forecast prices are positive.                                           *)

RECURSIVE GCD(_, _)
GCD(a, b) == IF b = 0 THEN a ELSE GCD(b, a % b)

Rat(n, d) == LET g == GCD(Abs(n), d) IN <<n \div g, d \div g>>
RatMul(x, y) == Rat(x[1] * y[1], x[2] * y[2])
RatAddInt(x, k) == Rat(x[1] + k * x[2], x[2])

(* the missing value of a column of fractions *)
RatNaN == <<0, 0>>

(* a percentage change taken over the current price *)
PctChangeOverCurrent(price) ==
    [i \in 1..Len(price) |->
        IF i = 1 THEN RatNaN ELSE Rat(price[i] - price[i - 1], price[i])]

(* Series.pct_change(): (price[i] - price[i-1]) / price[i-1], NaN first *)
pct_change(price) ==
    [i \in 1..Len(price) |->
        IF i = 1 THEN RatNaN ELSE Rat(price[i] - price[i - 1], price[i - 1])]

(* Series.fillna(0) *)
fillna0(col) == [i \in 1..Len(col) |-> IF col[i] = RatNaN THEN Rat(0, 1) ELSE col[i]]

(* Series.add(k), Series.sub(k) *)
AddInt(col, k) == [i \in 1..Len(col) |-> RatAddInt(col[i], k)]

(* Series.cumprod(): the running product *)
RECURSIVE cumprod(_)
cumprod(col) ==
    IF Len(col) = 0 THEN <<>>
    ELSE LET head == cumprod(SubSeq(col, 1, Len(col) - 1))
         IN Append(head, IF head = <<>> THEN col[1]
                         ELSE RatMul(head[Len(head)], col[Len(col)]))

(* the time column of a forecast frame, in hours after the last candle *)
TimeIndex(frame) == [i \in 1..frame.points |-> frame.first + (i - 1) * frame.step]

(* forecast_df.assign(price = ...): same rows, same time column *)
CumulativeReturns(forecast_df) ==
    LET price == [i \in 1..Len(forecast_df) |-> forecast_df[i].price]
        cumulative == AddInt(cumprod(AddInt(fillna0(pct_change(price)), 1)), -1)
    IN [i \in 1..Len(forecast_df) |-> [time |-> forecast_df[i].time, price |-> cumulative[i]]]

CumulativeInputs ==
    {[i \in 1..Len(p) |-> [time |-> TimeIndex(Frame(Len(p), u, u))[i], price |-> p[i]]] :
        p \in SeqsUpTo(1..MaxClose, MaxRows) \ {<<>>}, u \in {1, HoursPerDay}}

InitCumulative ==
    /\ EngineIdle
    /\ cIn \in CumulativeInputs
    /\ cOut = <<>>

BuildCumulative ==
    /\ cOut = <<>>
    /\ cOut' = CumulativeReturns(cIn)
    /\ UNCHANGED cIn
    /\ EngineUnchanged

NextCumulative == BuildCumulative

SpecCumulative == InitCumulative /\ [][NextCumulative]_vars

(* the product of (1 + return_j) for j = 2..i, taken in one go *)
RECURSIVE ProductOfGrowth(_, _)
ProductOfGrowth(forecast_df, i) ==
    IF i <= 1 THEN Rat(1, 1)
    ELSE RatMul(ProductOfGrowth(forecast_df, i - 1),
                Rat(forecast_df[i].price, forecast_df[i - 1].price))

(* C16: the cumulative-return series has the length and the timestamps of  *)
(* the forecast series, starts at 0, and its entry i is the product of     *)
(* (1 + return_j) over the steps up to i, minus 1, which is                *)
(* price_i / price_0 - 1.                                                  *)
C16_CumulativeReturns ==
    cOut # <<>> =>
        /\ Len(cOut) = Len(cIn)
        /\ cOut[1].price = Rat(0, 1)
        /\ \A i \in 1..Len(cIn) :
               /\ cOut[i].time = cIn[i].time
               /\ cOut[i].price = RatAddInt(ProductOfGrowth(cIn, i), -1)
               /\ cOut[i].price = Rat(cIn[i].price - cIn[1].price, cIn[1].price)

C16_Witness ==
    /\ Len(cOut) >= 3
    /\ cIn[1].price < cIn[2].price
    /\ cIn[3].price < cIn[1].price
    /\ cOut[3].price[1] < 0

-----------------------------------------------------------------------------
(* Sentiment: services/sentiment.py.  The relative strength index is       *)
(* computed as the code computes it, in exact fractions.  The exponential  *)
(* averages behind the MACD and EMA comparisons are not computed: the sign *)
(* of macd - signal and of ema_short - ema_long is left open (-1, 0, 1).   *)

RsiPeriod == 14
MinSentimentPoints == 26
MaxSentimentExtra == 1

RatAdd(x, y) == Rat(x[1] * y[2] + y[1] * x[2], x[2] * y[2])
RatNeg(x) == <<-x[1], x[2]>>
RatInv(x) == IF x[1] < 0 THEN Rat(-x[2], -x[1]) ELSE Rat(x[2], x[1])
RatLess(x, y) == x # RatNaN /\ y # RatNaN /\ x[1] * y[2] < y[1] * x[2]
RatMin(x, y) == IF RatLess(y, x) THEN y ELSE x

RECURSIVE SumSeq(_)
SumSeq(q) == IF q = <<>> THEN 0 ELSE q[1] + SumSeq(Tail(q))

(* the last value of Series.rolling(window).mean(), as a fraction; NaN     *)
(* when the series is shorter than the window                              *)
LastRollingMean(col, window) ==
    IF Len(col) < window THEN RatNaN
    ELSE Rat(SumSeq(SubSeq(col, Len(col) - window + 1, Len(col))), window)

(* series.diff() with the leading NaN already replaced by 0, as both       *)
(* delta.where(delta > 0, 0) and delta.where(delta < 0, 0) do              *)
Diff0(series) == [i \in 1..Len(series) |-> IF i = 1 THEN 0 ELSE series[i] - series[i - 1]]

(* _rsi, lines 6-12: loss.replace({0: np.nan}) makes rs, and with it the   *)
(* index, NaN whenever the average loss of the window is 0                 *)
_rsi(series) ==
    LET delta == Diff0(series)
        gain == LastRollingMean([i \in 1..Len(delta) |-> Max(delta[i], 0)], RsiPeriod)
        loss == LastRollingMean([i \in 1..Len(delta) |-> Max(-delta[i], 0)], RsiPeriod)
    IN IF gain = RatNaN \/ loss = RatNaN \/ loss[1] = 0 THEN RatNaN
       ELSE RatAdd(Rat(100, 1),
                   RatNeg(RatMul(Rat(100, 1), RatInv(RatAdd(Rat(1, 1), RatMul(gain, RatInv(loss)))))))

(* a classification whose score is not capped by min(..., 0.3) *)
ClassifyUncapped(combined, macd_cmp, ema_cmp) ==
    LET rsi_val == _rsi(combined)
        ind == [rsi |-> rsi_val, macd_cmp |-> macd_cmp, ema_cmp |-> ema_cmp]
    IN IF macd_cmp > 0 /\ ema_cmp > 0 /\ RatLess(Rat(55, 1), rsi_val)
       THEN [label |-> "Bullish", score |-> RatMul(RatAdd(rsi_val, Rat(15, 1)), Rat(1, 100))] @@ ind
       ELSE IF macd_cmp < 0 /\ ema_cmp < 0 /\ RatLess(rsi_val, Rat(45, 1))
       THEN [label |-> "Bearish", score |-> RatMul(RatAdd(rsi_val, Rat(-115, 1)), Rat(1, 100))] @@ ind
       ELSE [label |-> "Neutral", score |-> Rat(0, 1)] @@ ind

(* classify_sentiment, lines 40-63; a comparison with NaN is False.        *)
(* macd_cmp is the sign of macd - signal and ema_cmp that of ema_short -   *)
(* ema_long, both returned among the indicators.                           *)
classify_sentiment(combined, macd_cmp, ema_cmp) ==
    LET rsi_val == _rsi(combined)
        ind == [rsi |-> rsi_val, macd_cmp |-> macd_cmp, ema_cmp |-> ema_cmp]
    IN IF macd_cmp > 0 /\ ema_cmp > 0 /\ RatLess(Rat(55, 1), rsi_val)
       THEN [label |-> "Bullish",
             score |-> RatAdd(Rat(7, 10),
                              RatMin(RatMul(RatAdd(rsi_val, Rat(-55, 1)), Rat(1, 100)), Rat(3, 10)))] @@ ind
       ELSE IF macd_cmp < 0 /\ ema_cmp < 0 /\ RatLess(rsi_val, Rat(45, 1))
       THEN [label |-> "Bearish",
             score |-> RatAdd(Rat(-7, 10),
                              RatNeg(RatMin(RatMul(RatAdd(Rat(45, 1), RatNeg(rsi_val)), Rat(1, 100)), Rat(3, 10))))] @@ ind
       ELSE [label |-> "Neutral", score |-> Rat(0, 1)] @@ ind

(* pd.concat([latest_actual, forecast]): a series that starts at start and *)
(* moves by up and by down in turn                                         *)
CombinedSeries(start, up, down, len) ==
    [i \in 1..len |-> start + (i \div 2) * up + ((i - 1) \div 2) * down]

StrictlyIncreasing(series) ==
    \A i \in 1..(Len(series) - 1) : series[i] < series[i + 1]

SentimentInputs ==
    [start : {50, 100}, up : 0..3, down : -2..1,
     len : MinSentimentPoints..(MinSentimentPoints + MaxSentimentExtra)]

InitSentiment ==
    /\ EngineIdle
    /\ cIn \in SentimentInputs
    /\ cOut = [label |-> "unset", score |-> Rat(0, 1), rsi |-> RatNaN,
               macd_cmp |-> 0, ema_cmp |-> 0]

Classify(macd_cmp, ema_cmp) ==
    /\ cOut.label = "unset"
    /\ cOut' = classify_sentiment(CombinedSeries(cIn.start, cIn.up, cIn.down, cIn.len),
                                  macd_cmp, ema_cmp)
    /\ UNCHANGED cIn
    /\ EngineUnchanged

NextSentiment == \E macd_cmp \in {-1, 0, 1}, ema_cmp \in {-1, 0, 1} : Classify(macd_cmp, ema_cmp)

SpecSentiment == InitSentiment /\ [][NextSentiment]_vars

(* C17: a strictly increasing combined series of at least 26 points is     *)
(* classified "Bullish" with a strictly positive score.                    *)
C17_IncreasingIsBullish ==
    (cOut.label # "unset"
       /\ StrictlyIncreasing(CombinedSeries(cIn.start, cIn.up, cIn.down, cIn.len))) =>
        (cOut.label = "Bullish" /\ cOut.score[1] > 0)

-----------------------------------------------------------------------------
(* The Fetcher: _fetch_binance_klines, lines 29-95, one action per request *)
(* of the paging loop.  A candle is its open_time; the source holds the    *)
(* candles 1..history and answers a request with the latest candles not    *)
(* after endTime, oldest first, at most limit of them; it may send fewer   *)
(* than it has, but sends none only when it has none.                      *)
(* cIn = [total_records, history], cOut = the locals of the call.          *)

MaxLimit == 2
MaxCount == 5
MaxHistory == 7

(* iterations = (total_records // max_limit) + 1 *)
Iterations(total_records) == (total_records \div MaxLimit) + 1

(* current_limit = min(max_limit, total_records - len(all_data)) *)
CurrentLimit(total_records, all_data) == Min(MaxLimit, total_records - Len(all_data))

(* an endTime that still takes in the earliest candle held *)
EndTimeInclusive(all_data, history) ==
    IF all_data # <<>> THEN all_data[1] ELSE history

(* params['endTime'] = all_data[0][0] - 1 when candles are held; without   *)
(* endTime the source answers up to now                                    *)
EndTime(all_data, history) ==
    IF all_data # <<>> THEN all_data[1] - 1 ELSE history

(* the answer of the source: the k latest candles up to endTime *)
Page(endTime, k) == [j \in 1..k |-> endTime - k + j]

FetchInputs == [total_records : 1..MaxCount, history : 0..MaxHistory]

FetchStart == [pc |-> "loop", i |-> 0, all_data |-> <<>>, df |-> <<>>, ok |-> FALSE]

InitFetch ==
    /\ EngineIdle
    /\ cIn \in FetchInputs
    /\ cOut = FetchStart

InLoop ==
    /\ cOut.pc = "loop"
    /\ cOut.i < Iterations(cIn.total_records)
    /\ CurrentLimit(cIn.total_records, cOut.all_data) > 0

(* lines 50-71: one request that is answered with k > 0 candles *)
RequestPage(k) ==
    /\ InLoop
    /\ LET endTime == EndTime(cOut.all_data, cIn.history)
           available == Max(Min(endTime, cIn.history), 0)
       IN /\ k <= Min(CurrentLimit(cIn.total_records, cOut.all_data), available)
          /\ cOut' = [cOut EXCEPT !.all_data = Page(Min(endTime, cIn.history), k) \o @,
                                  !.i = @ + 1]
    /\ UNCHANGED cIn
    /\ EngineUnchanged

(* lines 68-69: the source has nothing before endTime: break *)
EmptyPage ==
    /\ InLoop
    /\ Min(EndTime(cOut.all_data, cIn.history), cIn.history) <= 0
    /\ cOut' = [cOut EXCEPT !.pc = "after"]
    /\ UNCHANGED cIn
    /\ EngineUnchanged

(* lines 46-48: range(iterations) is used up, or current_limit <= 0 *)
LoopEnds ==
    /\ cOut.pc = "loop"
    /\ ~InLoop
    /\ cOut' = [cOut EXCEPT !.pc = "after"]
    /\ UNCHANGED cIn
    /\ EngineUnchanged

(* lines 62-63 and 93-95: a request fails, the exception is caught and the *)
(* function returns None, whatever it has assembled                        *)
RequestFails ==
    /\ InLoop
    /\ cOut' = [cOut EXCEPT !.pc = "done", !.ok = FALSE, !.df = <<>>]
    /\ UNCHANGED cIn
    /\ EngineUnchanged

(* lines 73-92: None without candles, else the frame sorted by time *)
BuildFrame ==
    /\ cOut.pc = "after"
    /\ cOut' = [cOut EXCEPT !.pc = "done",
                            !.ok = (cOut.all_data # <<>>),
                            !.df = SortSeq(cOut.all_data, LAMBDA a, b : a < b)]
    /\ UNCHANGED cIn
    /\ EngineUnchanged

NextFetch ==
    \/ \E k \in 1..MaxLimit : RequestPage(k)
    \/ EmptyPage
    \/ LoopEnds
    \/ RequestFails
    \/ BuildFrame

SpecFetch == InitFetch /\ [][NextFetch]_vars

FetchReturned == cOut.pc = "done" /\ cOut.ok

(* C18: the Fetcher never returns more than count candles and never makes  *)
(* more requests than its loop allows, and whenever the source holds at    *)
(* least count candles and no request fails it returns exactly count       *)
(* candles, also when a page comes back shorter than requested.            *)
C18_ExactCount ==
    /\ Len(cOut.all_data) <= cIn.total_records
    /\ cOut.i <= Iterations(cIn.total_records)
    /\ (FetchReturned /\ cIn.history >= cIn.total_records) =>
           Len(cOut.df) = cIn.total_records

(* C19: the candles returned by the Fetcher are in strictly increasing     *)
(* order of time with no duplicate, for any number of pages.               *)
C19_StrictlyIncreasing ==
    FetchReturned =>
        \A a \in 1..(Len(cOut.df) - 1) : cOut.df[a] < cOut.df[a + 1]

C19_Witness ==
    /\ FetchReturned
    /\ cOut.i >= 3
    /\ Len(cOut.df) >= 4

-----------------------------------------------------------------------------
(* a generate_forecast request of the short-horizon class on worker w *)
ShortRequest(w) == rq[w].ep \in DailyEps /\ rq[w].h <= ShortHorizonMax

LstmArtifactAbsent ==
    store["lstm_best"].st = "absent" /\ store["lstm_model"].st = "absent"

(* C20: a generate_forecast request with horizon <= 2 never trains a model *)
(* and never writes to the Model Store: no step of the request changes a   *)
(* persisted file, the metadata or the record of training runs, and when   *)
(* the recurrent-net artifact is absent the request ends in the naive      *)
(* forecast.                                                               *)
C20_ShortHorizonReadOnly ==
    /\ [](\A w \in Workers :
            ShortRequest(w) =>
                /\ ~rq[w].trained /\ ~rq[w].saved /\ ~rq[w].wopen
                /\ (Done(w) /\ rq[w].n > 0 /\ LstmArtifactAbsent) => rq[w].kind = "naive")
    /\ [][\A w \in Workers :
            (ShortRequest(w) /\ (pc'[w] # pc[w] \/ rq'[w] # rq[w])) =>
                UNCHANGED <<store, meta, runs>>]_vars

C20_Witness ==
    \E w \in Workers :
        /\ ShortRequest(w) /\ Done(w) /\ rq[w].n > WarmupShort
        /\ rq[w].coin \in COIN_NAME_MAP
        /\ LstmArtifactAbsent
        /\ rq[w].fault = "no_model" /\ rq[w].kind = "naive"

-----------------------------------------------------------------------------
(* The loaders and the absent value                                        *)

(* C21: a load never raises for an artifact that is not found: for every  *)
(* coin symbol and horizon the loader hands back the absent value, so no   *)
(* request is ever stopped by an exception leaving a loader.               *)
C21_LoadNeverRaises ==
    \A w \in Workers : rq[w].fault # "unsupported_coin"

-----------------------------------------------------------------------------
(* Too few feature rows to train *)

(* the request went to the gradient-boosted trainer with a series whose    *)
(* feature rows are below the minimum (lines 431-435 and 617-620)          *)
TooFewRows(w) ==
    /\ "gbr" \in rq[w].fams /\ ~rq[w].uc
    /\ \/ rq[w].ep \in DailyEps /\ rq[w].n - WarmupDaily < MinDailyRows
       \/ rq[w].ep = "hourly_forecast" /\ rq[w].n - WarmupHourly < MinHourlyRows

(* C22: when fewer than 100 daily (500 hourly) feature rows are left, the  *)
(* retrain stops before any fit, nothing is written to the Model Store and *)
(* the request ends with the naive forecast, not with an error.            *)
C22_TooFewRowsIsNaive ==
    \A w \in Workers :
        (Done(w) /\ TooFewRows(w)) =>
            /\ rq[w].kind = "naive" /\ rq[w].exc = "none"
            /\ rq[w].status \in {0, 200}
            /\ ~rq[w].trained /\ ~rq[w].saved /\ ~rq[w].wopen

C22_Witness ==
    \E w \in Workers :
        /\ Done(w) /\ TooFewRows(w) /\ rq[w].ep = "forecast"
        /\ rq[w].n = MinDailyRows /\ rq[w].fault = "too_few_rows"
        /\ rq[w].status = 200

-----------------------------------------------------------------------------
(* The sentiment rule *)

RatLeq(x, y) == x = y \/ RatLess(x, y)

(* C23: the label is Bullish iff MACD > signal, EMA(9) > EMA(21) and       *)
(* RSI > 55, Bearish iff all three point the other way with RSI < 45, and  *)
(* Neutral otherwise; a Bullish score is (RSI + 15)/100 capped at 1 and    *)
(* lies in (0.7, 1], a Bearish score is (RSI - 115)/100 capped at -1 and   *)
(* lies in [-1, -0.7), and the score is 0 iff the label is Neutral.        *)
C23_LabelAndScore ==
    cOut.label # "unset" =>
        LET bull == cOut.macd_cmp > 0 /\ cOut.ema_cmp > 0 /\ RatLess(Rat(55, 1), cOut.rsi)
            bear == cOut.macd_cmp < 0 /\ cOut.ema_cmp < 0 /\ RatLess(cOut.rsi, Rat(45, 1))
        IN /\ cOut.label = "Bullish" <=> bull
           /\ cOut.label = "Bearish" <=> bear
           /\ cOut.label = "Neutral" <=> (~bull /\ ~bear)
           /\ cOut.label = "Bullish" =>
                /\ RatLess(Rat(7, 10), cOut.score) /\ RatLeq(cOut.score, Rat(1, 1))
                /\ cOut.score = RatMin(RatMul(RatAdd(cOut.rsi, Rat(15, 1)), Rat(1, 100)), Rat(1, 1))
           /\ cOut.label = "Bearish" =>
                /\ RatLeq(Rat(-1, 1), cOut.score) /\ RatLess(cOut.score, Rat(-7, 10))
                /\ cOut.score = RatNeg(RatMin(RatMul(RatAdd(Rat(115, 1), RatNeg(cOut.rsi)), Rat(1, 100)),
                                              Rat(1, 1)))
           /\ cOut.score = Rat(0, 1) <=> cOut.label = "Neutral"

C23_Witness ==
    /\ cOut.label = "Bearish" /\ cOut.score = Rat(-1, 1)
    /\ cOut.macd_cmp < 0 /\ cOut.ema_cmp < 0 /\ RatLess(cOut.rsi, Rat(15, 1))

-----------------------------------------------------------------------------
(* The correction of the recurrent-net path: generate_forecast, lines      *)
(* 298-358, after the loaded model has predicted.  Prices are integers.    *)
(* cIn = [close : df.iloc[-1]["Close"], first : future_48[0],              *)
(*        rows : len(df_multi), cols : the loaded frame carries the        *)
(*        engineered feature columns, rmse : the root mean squared error   *)
(*        of the held-out predictions at the first step, err :             *)
(*        y_test_pred[-1, 29] - y_test_actual[-1, 29]];                    *)
(* cOut = the locals of the branch.                                        *)

MaxCorrPrice == 3
MinEvalRows == 3

(* _fetch_binance_klines returns exactly time, Open, High, Low, Close and  *)
(* Volume (line 89); _load_price_series_from_csv keeps whatever columns    *)
(* the dataset file has (lines 116-138).                                   *)
CorrectionInputs ==
    [close : 1..MaxCorrPrice, first : 1..MaxCorrPrice,
     rows : (MinEvalRows - 1)..(MinEvalRows + 1), cols : BOOLEAN,
     rmse : 0..1, err : -1..1]

InitCorrection ==
    /\ EngineIdle
    /\ cIn \in CorrectionInputs
    /\ cOut = [pc |-> "evaluate", rmse_array |-> 0, evaluated |-> FALSE,
               error |-> 0, adjusted |-> 0]

(* lines 300-336: y_df = df.copy() is the loaded frame, not df_features;   *)
(* df_multi[feature_cols] raises KeyError when the frame has no MA_12,     *)
(* MA_24, ... columns, before y_test_eval is bound, and the except branch  *)
(* sets rmse_array = np.zeros(n_out)                                       *)
EvaluateHeldOut ==
    /\ cOut.pc = "evaluate"
    /\ cOut' = IF cIn.rows > MinEvalRows /\ cIn.cols
               THEN [cOut EXCEPT !.pc = "correct", !.rmse_array = cIn.rmse, !.evaluated = TRUE]
               ELSE [cOut EXCEPT !.pc = "correct", !.rmse_array = 0]
    /\ UNCHANGED cIn
    /\ EngineUnchanged

(* lines 342-358: delta, the reference error (0 when y_test_eval or        *)
(* y_test_pred is unbound) and the two branches of the correction          *)
CorrectForecast ==
    /\ cOut.pc = "correct"
    /\ LET delta == cIn.close - cIn.first
           error == IF cOut.evaluated THEN cIn.err ELSE 0
       IN cOut' = [cOut EXCEPT !.pc = "done", !.error = error,
                               !.adjusted = IF error < 0
                                            THEN (cIn.first - cOut.rmse_array) + delta
                                            ELSE (cIn.first + cOut.rmse_array) - delta]
    /\ UNCHANGED cIn
    /\ EngineUnchanged

NextCorrection == EvaluateHeldOut \/ CorrectForecast

SpecCorrection == InitCorrection /\ [][NextCorrection]_vars

(* C24: with a zero RMSE term the first corrected step equals the latest   *)
(* actual close, whichever branch of the correction is taken.              *)
C24_AnchoredToClose ==
    (cOut.pc = "done" /\ cOut.rmse_array = 0) => cOut.adjusted = cIn.close

(* C25: whenever more than 3 rows with complete multi-step targets exist,  *)
(* the error term of the correction is the RMSE of the held-out            *)
(* predictions and the reference error comes from the same evaluation.     *)
C25_HeldOutErrorUsed ==
    (cOut.pc = "done" /\ cIn.rows > MinEvalRows) =>
        (cOut.rmse_array = cIn.rmse /\ cOut.error = cIn.err)

-----------------------------------------------------------------------------
(* The feature list of the daily gradient-boosted model *)

(* lines 216-232: feature_cols as _prepare_feature_matrix returns it for   *)
(* the daily class                                                         *)
DailySchema == DOMAIN DailyColumns(1)

(* lines 416-422: feature_cols of the gradient-boosted branch, used by the *)
(* trainer (444) and by inference (507); on reuse it is replaced by the    *)
(* list of the loaded record (428-429), which is the list the training     *)
(* run of that record used (497)                                           *)
MlFeatureCols ==
    {"Open", "High", "Low", "Close", "Volume", "MA_7", "MA_14", "MA_30",
     "Returns", "Volatility", "Price_Range", "Price_Change", "Volume_MA_7",
     "High_Low_Ratio"}

(* C26: the feature list used to train and to run the daily               *)
(* gradient-boosted model is exactly the daily schema of the Feature       *)
(* Engineer: OHLCV, the 7, 14, 30 and 50 sample averages, return,          *)
(* volatility, range, change, volume average and high/low ratio.           *)
C26_DailySchemaUsed ==
    \A w \in Workers :
        (Done(w) /\ rq[w].ep \in DailyEps /\ rq[w].h > ShortHorizonMax
           /\ rq[w].kind = "model") =>
            MlFeatureCols = DailySchema

-----------------------------------------------------------------------------
(* The train/test split of the gradient-boosted trainers: generate_forecast *)
(* lines 447-473 and generate_hourly_forecast lines 631-656.  The rows of   *)
(* df_multi are in time order (the frame is sorted by time at line 90 and   *)
(* dropna().reset_index() keeps the order), so a row is its rank 1..n.      *)
(* cIn = [n : len(X), path], cOut = the locals of the trainer.              *)

MaxTargetRows == 20

(* a split index rounded to the nearest row *)
SplitIndexRounded(n) == (8 * n + 5) \div 10

(* split = int(0.8 * len(X)): the double 0.8 lies just above 4/5, so the   *)
(* product never falls below an integer it should reach                    *)
SplitIndex(n) == (8 * n) \div 10

SplitInputs == [n : 0..MaxTargetRows, path : {"daily", "hourly"}]

InitSplit ==
    /\ EngineIdle
    /\ cIn \in SplitInputs
    /\ cOut = [pc |-> "split", train |-> {}, test |-> {}, fit_x |-> {}, fit_y |-> {},
               seen_x |-> {}, fit_model |-> {}]

(* X_train, X_test = X[:split], X[split:] and the same for y *)
SplitRows ==
    /\ cOut.pc = "split"
    /\ LET split == SplitIndex(cIn.n)
       IN cOut' = [cOut EXCEPT !.pc = "scale", !.train = 1..split,
                               !.test = (split + 1)..cIn.n]
    /\ UNCHANGED cIn
    /\ EngineUnchanged

(* scaler_x.fit_transform(X_train), scaler_y.fit_transform(y_train); the   *)
(* daily trainer also runs scaler_x.transform(X_test), which fits nothing  *)
FitScalers ==
    /\ cOut.pc = "scale"
    /\ cOut' = [cOut EXCEPT !.pc = "fit", !.fit_x = cOut.train, !.fit_y = cOut.train,
                            !.seen_x = IF cIn.path = "daily"
                                       THEN cOut.train \cup cOut.test ELSE cOut.train]
    /\ UNCHANGED cIn
    /\ EngineUnchanged

(* model.fit(X_train_scaled, y_train_scaled) *)
FitModel ==
    /\ cOut.pc = "fit"
    /\ cOut' = [cOut EXCEPT !.pc = "done", !.fit_model = cOut.train]
    /\ UNCHANGED cIn
    /\ EngineUnchanged

NextSplit == SplitRows \/ FitScalers \/ FitModel

SpecSplit == InitSplit /\ [][NextSplit]_vars

(* C27: with n target rows the training split is the first floor(0.8 n)    *)
(* rows and the test split the rest, every training row precedes every     *)
(* test row, and both scalers and the model are fit on the training split  *)
(* only.                                                                   *)
C27_ChronologicalSplit ==
    cOut.pc = "done" =>
        LET k == CHOOSE j \in 0..cIn.n : 5 * j <= 4 * cIn.n /\ 4 * cIn.n < 5 * (j + 1)
        IN /\ cOut.train = {i \in 1..cIn.n : i <= k}
           /\ cOut.test = (1..cIn.n) \ cOut.train
           /\ \A a \in cOut.train, b \in cOut.test : a < b
           /\ cOut.fit_x = cOut.train /\ cOut.fit_y = cOut.train
           /\ cOut.fit_model = cOut.train

C27_Witness ==
    /\ cOut.pc = "done" /\ cIn.n = 8
    /\ cOut.train = 1..6 /\ cOut.test = {7, 8} /\ cOut.fit_model = 1..6

-----------------------------------------------------------------------------
(* Reuse and the input scaler *)

(* C28: a stored daily gradient-boosted artifact is reused only when the   *)
(* model, the input scaler and the output scaler were all loaded: on the   *)
(* reuse path inference is never reached with a missing input scaler, on   *)
(* the daily path as on the hourly one.                                    *)
C28_ReuseHasInputScaler ==
    \A w \in Workers :
        (pc[w] \in {"ml_infer", "h_infer"} /\ rq[w].uc) =>
            (rq[w].model.st = "obj" /\ rq[w].sx.st = "obj" /\ rq[w].sy.st = "obj")

-----------------------------------------------------------------------------
(* The training-set size in the metadata *)

(* lines 487-498: the info dict of a training run; timestamp is            *)
(* datetime.now(), data_shape is len(df_features), feature_cols is there   *)
TrainingInfo(run) == Meta("dt", run.at, run.rows, TRUE)

(* C29: data_shape of the metadata built at training time and the current  *)
(* length of the compatibility check count the same rows: for a model just *)
(* trained, the check on the unchanged dataset finds zero drift and the    *)
(* model compatible.                                                       *)
C29_FreshModelHasNoDrift ==
    \A w \in Workers :
        (Done(w) /\ rq[w].ep \in DailyEps /\ rq[w].trained) =>
            LET info == TrainingInfo(runs[rq[w].run])
            IN /\ Abs(rq[w].n - info.shape) = 0
               /\ meta_compatible(info, rq[w].n, now)

-----------------------------------------------------------------------------
(* Sessions: login and logout of one user, routers/auth.py lines 34-46 and *)
(* 125-132, with get_current_user of deps.py lines 13-50.  Every await on  *)
(* the database is a step of its own, so concurrent requests interleave    *)
(* there.  A token is its jti, a number; tokens do not expire within a     *)
(* run and the database is reachable.                                      *)
(* cIn  = the database and the clients: db.sessions and db.revoked_tokens  *)
(*        of the user as sets of jti, the tokens issued and those handed   *)
(*        to a client;                                                     *)
(* cOut = for each request in flight its position and locals.              *)

MaxTokens == 3
Requests == {1, 2}

IdleRequest == [pc |-> "idle", jti |-> 0, found |-> {}, before |-> {}, result |-> "none"]

InitAuth ==
    /\ EngineIdle
    /\ cIn = [sessions |-> {}, revoked |-> {}, issued |-> {}, held |-> {}]
    /\ cOut = [p \in Requests |-> IdleRequest]

(* get_current_user as it would answer now: the token decodes, its jti is  *)
(* not in db.revoked_tokens and the user exists                            *)
Accepted(t) == t \in cIn.held /\ t \notin cIn.revoked

(* login, lines 36-39: the user is found, the password verified and the    *)
(* token created with a fresh jti                                          *)
LoginCreateToken(p) ==
    /\ cOut[p].pc = "idle"
    /\ Cardinality(cIn.issued) < MaxTokens
    /\ LET jti == Cardinality(cIn.issued) + 1
       IN /\ cIn' = [cIn EXCEPT !.issued = @ \cup {jti}]
          /\ cOut' = [cOut EXCEPT ![p] = [IdleRequest EXCEPT !.pc = "login_insert", !.jti = jti]]
    /\ EngineUnchanged

(* login, line 40: db.sessions.insert_one *)
LoginInsertSession(p) ==
    /\ cOut[p].pc = "login_insert"
    /\ cIn' = [cIn EXCEPT !.sessions = @ \cup {cOut[p].jti}]
    /\ cOut' = [cOut EXCEPT ![p].pc = "login_return"]
    /\ EngineUnchanged

(* login, lines 42-46: last_login_at is updated and the token returned *)
LoginReturn(p) ==
    /\ cOut[p].pc = "login_return"
    /\ cIn' = [cIn EXCEPT !.held = @ \cup {cOut[p].jti}]
    /\ cOut' = [cOut EXCEPT ![p].pc = "idle", ![p].result = "200"]
    /\ EngineUnchanged

(* logout, the dependency get_current_user (deps.py 13-50) for a token a   *)
(* client holds: 401 when its jti is revoked, else the user                *)
LogoutAuthenticate(p, t) ==
    /\ cOut[p].pc = "idle"
    /\ t \in cIn.held
    /\ cOut' = [cOut EXCEPT ![p] =
                   IF t \in cIn.revoked
                   THEN [IdleRequest EXCEPT !.jti = t, !.result = "401"]
                   ELSE [IdleRequest EXCEPT !.pc = "logout_find", !.jti = t,
                                            !.before = cIn.held]]
    /\ UNCHANGED cIn
    /\ EngineUnchanged

(* logout, line 129: the list built from db.sessions.find({"user_id": ..}) *)
LogoutFindSessions(p) ==
    /\ cOut[p].pc = "logout_find"
    /\ cOut' = [cOut EXCEPT ![p].pc = "logout_revoke", ![p].found = cIn.sessions]
    /\ UNCHANGED cIn
    /\ EngineUnchanged

(* logout, line 128: db.revoked_tokens.insert_many(list); insert_many      *)
(* raises on an empty list and the request ends with a server error        *)
LogoutRevoke(p) ==
    /\ cOut[p].pc = "logout_revoke"
    /\ IF cOut[p].found = {}
       THEN /\ cOut' = [cOut EXCEPT ![p].pc = "idle", ![p].result = "500"]
            /\ UNCHANGED cIn
       ELSE /\ cIn' = [cIn EXCEPT !.revoked = @ \cup cOut[p].found]
            /\ cOut' = [cOut EXCEPT ![p].pc = "logout_delete"]
    /\ EngineUnchanged

(* logout, lines 131-132: db.sessions.delete_many({"user_id": ..}) removes *)
(* every session the user has now                                          *)
LogoutDeleteSessions(p) ==
    /\ cOut[p].pc = "logout_delete"
    /\ cIn' = [cIn EXCEPT !.sessions = {}]
    /\ cOut' = [cOut EXCEPT ![p].pc = "idle", ![p].result = "200"]
    /\ EngineUnchanged

NextAuth ==
    \E p \in Requests :
        \/ LoginCreateToken(p)
        \/ LoginInsertSession(p)
        \/ LoginReturn(p)
        \/ \E t \in 1..MaxTokens : LogoutAuthenticate(p, t)
        \/ LogoutFindSessions(p)
        \/ LogoutRevoke(p)
        \/ LogoutDeleteSessions(p)

SpecAuth == InitAuth /\ [][NextAuth]_vars

(* C30: under any interleaving of logins and logouts of one user, every    *)
(* token get_current_user would still accept has its jti in db.sessions;   *)
(* a logout made with an accepted token finds a session, ends              *)
(* successfully, and leaves the caller's token and every token issued      *)
(* before it began revoked.                                                *)
C30_AcceptedTokensHaveSessions ==
    /\ \A t \in 1..MaxTokens : Accepted(t) => t \in cIn.sessions
    /\ \A p \in Requests :
          /\ cOut[p].result # "500"
          /\ (cOut[p].pc = "idle" /\ cOut[p].before # {}) =>
                ({cOut[p].jti} \cup cOut[p].before) \subseteq cIn.revoked

====
